---- MODULE Spec2Model ----
(***************************************************************************)
(* Model of the VoodooBuffer addressing surface and lifecycle (src/lib.rs). *)
(* usize is a WordBits-wide unsigned integer; the platform backend          *)
(* (voodoo_buf_min_len / voodoo_buf_alloc / voodoo_buf_free and the double  *)
(* mapping it installs) is modelled from its documented contract.           *)
(***************************************************************************)
EXTENDS Integers, Sequences, FiniteSets, TLC

\* ---------------------------------------------------------------- bounds
WordBits == 3
MaxReq == 6

UsizeMod == 2 ^ WordBits
UsizeMax == UsizeMod - 1
Usize == 0 .. UsizeMax
Requests == 0 .. MaxReq
ByteVals == {0, 1}
Bases == {"p"}

VARIABLES
    overflowChecks,  \* build profile: usize overflow panics (TRUE) or wraps (FALSE)
    state,           \* "none" | "live" | "dropped" | "failed"
    addr, len, mask, \* fields of the VoodooBuffer
    mem,             \* the N physical bytes of the backing
    allocLog,        \* calls of voodoo_buf_alloc: <<[n, ret]>>
    freeLog,         \* calls of voodoo_buf_free: <<[addr, len]>>
    res              \* outcome of the last operation, and the borrow it left

vars == <<overflowChecks, state, addr, len, mask, mem, allocLog, freeLog, res>>

\* ---------------------------------------------------------- usize arithmetic
RECURSIVE BitAnd(_, _)
BitAnd(x, y) ==
    IF x = 0 \/ y = 0 THEN 0
    ELSE (x % 2) * (y % 2) + 2 * BitAnd(x \div 2, y \div 2)

RECURSIVE count_ones(_)
count_ones(x) == IF x = 0 THEN 0 ELSE (x % 2) + count_ones(x \div 2)

is_power_of_two(x) == count_ones(x) = 1

\* the outcome of an overflowing usize operation in a build with overflow checks
Overflow == 0 - 1

\* x - y on usize
Sub(x, y) ==
    IF x = Overflow \/ y = Overflow THEN Overflow
    ELSE IF x >= y THEN x - y
    ELSE IF overflowChecks THEN Overflow
    ELSE (x - y + UsizeMod) % UsizeMod

\* x + y on usize
Add(x, y) ==
    IF x = Overflow \/ y = Overflow THEN Overflow
    ELSE IF x + y <= UsizeMax THEN x + y
    ELSE IF overflowChecks THEN Overflow
    ELSE (x + y) % UsizeMod

\* ------------------------------------------------------------------ backend
\* the platform granularity G
voodoo_buf_min_len == 2

\* virtual offset o in [0, 2N) of the doubly mapped window -> physical byte
Phys(o) == o % len

\* a fresh anonymous backing of n bytes
ZeroBacking(n) == [o \in 0 .. (n - 1) |-> 0]

\* ------------------------------------------------------------------ results
NoRes ==
    [op |-> "none", a |-> 0, b |-> 0, out |-> "none", off |-> 0, n |-> 0,
     val |-> 0, mut |-> FALSE]
Panic == [out |-> "panic", off |-> 0, n |-> 0]
EmptySlice == [out |-> "empty", off |-> 0, n |-> 0]

Outcome(op, a, b, r, m) ==
    [op |-> op, a |-> a, b |-> b, out |-> r.out, off |-> r.off, n |-> r.n,
     val |-> 0, mut |-> m /\ r.out = "slice"]

\* ------------------------------------------------------------ VoodooBuffer
as_slice(offset, n) == [out |-> "slice", off |-> offset, n |-> n]
as_slice_mut(offset, n) == [out |-> "slice", off |-> offset, n |-> n]

fast_mod(v) == BitAnd(v, mask)

\* CheckLen without the alignment check
CheckLen_NoAlign(n) ==
    IF n = 0 THEN "len must be greater than 0"
    ELSE IF ~ is_power_of_two(n) THEN "len must be power of two"
    ELSE "ok"

\* validation part of VoodooBuffer::new: the error message, or "ok"
CheckLen(n) ==
    IF n = 0 THEN "len must be greater than 0"
    ELSE IF ~ is_power_of_two(n) THEN "len must be power of two"
    ELSE IF n % voodoo_buf_min_len # 0 THEN "len must be page aligned"
    ELSE "ok"

\* index_usize masking with len instead of len - 1
index_usize_LenMask(index) == BitAnd(index, len)

\* base-relative offset of buf[index]
index_usize(index) == fast_mod(index)
index_mut_usize(index) == fast_mod(index)

\* index_range positioning the slice by the masked end
index_range_FromEnd(start, end) ==
    IF start > end THEN EmptySlice
    ELSE LET l == Sub(end, start)
         IN  IF l = Overflow \/ l > len THEN Panic ELSE as_slice(fast_mod(end), l)

\* index_range without the early return for start > end
index_range_NoEmpty(start, end) ==
    LET l == Sub(end, start)
    IN  IF l = Overflow \/ l > len THEN Panic ELSE as_slice(fast_mod(start), l)

\* index_mut_range rejecting a range of exactly len bytes
index_mut_range_Strict(start, end) ==
    IF start > end THEN EmptySlice
    ELSE LET l == Sub(end, start)
         IN  IF l = Overflow \/ l >= len THEN Panic ELSE as_slice_mut(fast_mod(start), l)

\* buf[start..end]
index_range(start, end) ==
    IF start > end THEN EmptySlice
    ELSE LET l == Sub(end, start)
         IN  IF l = Overflow \/ l > len THEN Panic ELSE as_slice(fast_mod(start), l)

index_mut_range(start, end) ==
    IF start > end THEN EmptySlice
    ELSE LET l == Sub(end, start)
         IN  IF l = Overflow \/ l > len THEN Panic ELSE as_slice_mut(fast_mod(start), l)

\* index_range_to starting one byte late
index_range_to_OffByOne(end) ==
    LET start == Add(Sub(end, len), 1)
    IN  IF start = Overflow THEN Panic ELSE as_slice(fast_mod(start), len)

\* buf[..end]
index_range_to(end) ==
    LET start == Sub(end, len)
    IN  IF start = Overflow THEN Panic ELSE as_slice(fast_mod(start), len)

index_mut_range_to(end) ==
    LET start == Sub(end, len)
    IN  IF start = Overflow THEN Panic ELSE as_slice_mut(fast_mod(start), len)

\* index_mut_range_from without the modular reduction of start
index_mut_range_from_NoMask(start) == as_slice_mut(start, len)

\* buf[start..]
index_range_from(start) == as_slice(fast_mod(start), len)
index_mut_range_from(start) == as_slice_mut(fast_mod(start), len)

\* buf[..=end]
index_range_to_inclusive(end) ==
    LET start == Add(Sub(end, len), 1)
    IN  IF start = Overflow THEN Panic ELSE as_slice(fast_mod(start), len)

index_mut_range_to_inclusive(end) ==
    LET start == Add(Sub(end, len), 1)
    IN  IF start = Overflow THEN Panic ELSE as_slice_mut(fast_mod(start), len)

\* buf[..]
index_range_full == as_slice(0, len)
index_mut_range_full == as_slice_mut(0, len)

\* &*buf, &mut *buf
deref == as_slice(0, len)
deref_mut == as_slice_mut(0, len)

\* the byte a single-byte read of buf[i] returns
ReadByte(i) == mem[Phys(index_usize(i))]

\* the j-th byte (from 0) seen through a slice that starts at offset off
SliceByte(off, j) == mem[Phys(off + j)]

Init ==
    /\ overflowChecks \in BOOLEAN
    /\ state = "none"
    /\ addr = "null"
    /\ len = 0
    /\ mask = 0
    /\ mem = << >>
    /\ allocLog = << >>
    /\ freeLog = << >>
    /\ res = NoRes

Fields == <<addr, len, mask>>
Handle == <<overflowChecks, state, addr, len, mask, allocLog, freeLog>>

\* VoodooBuffer::new(n), validation failure
NewInvalid(n) ==
    /\ state = "none"
    /\ CheckLen(n) # "ok"
    /\ state' = "failed"
    /\ res' = [NoRes EXCEPT !.op = "new", !.a = n, !.out = "err"]
    /\ UNCHANGED <<overflowChecks, Fields, mem, allocLog, freeLog>>

\* VoodooBuffer::new(n), voodoo_buf_alloc reports an error
NewAllocFails(n) ==
    /\ state = "none"
    /\ CheckLen(n) = "ok"
    /\ allocLog' = Append(allocLog, [n |-> n, ret |-> "err"])
    /\ state' = "failed"
    /\ res' = [NoRes EXCEPT !.op = "new", !.a = n, !.out = "err"]
    /\ UNCHANGED <<overflowChecks, Fields, mem, freeLog>>

\* VoodooBuffer::new(n), success
NewOk(n) ==
    /\ state = "none"
    /\ CheckLen(n) = "ok"
    /\ \E base \in Bases :
        /\ allocLog' = Append(allocLog, [n |-> n, ret |-> base])
        /\ addr' = base
    /\ mask' = n - 1
    /\ len' = n
    /\ mem' = ZeroBacking(n)
    /\ state' = "live"
    /\ res' = [NoRes EXCEPT !.op = "new", !.a = n, !.out = "ok"]
    /\ UNCHANGED <<overflowChecks, freeLog>>

New(n) == NewInvalid(n) \/ NewAllocFails(n) \/ NewOk(n)

\* Drop releasing the mapping with the mask in place of the length
Drop_WrongLen ==
    /\ state = "live"
    /\ freeLog' = Append(freeLog, [addr |-> addr, len |-> mask])
    /\ state' = "dropped"
    /\ mem' = << >>
    /\ res' = [NoRes EXCEPT !.op = "drop"]
    /\ UNCHANGED <<overflowChecks, Fields, allocLog>>

\* Drop for VoodooBuffer
Drop ==
    /\ state = "live"
    /\ freeLog' = Append(freeLog, [addr |-> addr, len |-> len])
    /\ state' = "dropped"
    /\ mem' = << >>
    /\ res' = [NoRes EXCEPT !.op = "drop"]
    /\ UNCHANGED <<overflowChecks, Fields, allocLog>>

\* let x = buf[i]
IndexByte(i) ==
    /\ state = "live"
    /\ res' = [NoRes EXCEPT !.op = "index", !.a = i, !.out = "byte",
                            !.off = index_usize(i), !.n = 1, !.val = ReadByte(i)]
    /\ UNCHANGED <<Handle, mem>>

\* buf[i] = v
IndexMutByte(i, v) ==
    /\ state = "live"
    /\ mem' = [mem EXCEPT ![Phys(index_mut_usize(i))] = v]
    /\ res' = [NoRes EXCEPT !.op = "index_mut", !.a = i, !.out = "byte",
                            !.off = index_mut_usize(i), !.n = 1, !.val = v]
    /\ UNCHANGED Handle

\* an addressing operation that hands out a slice (or panics)
Hand(op, a, b, r, m) ==
    /\ state = "live"
    /\ res' = Outcome(op, a, b, r, m)
    /\ UNCHANGED <<Handle, mem>>

IndexRange(a, b) == Hand("range", a, b, index_range(a, b), FALSE)
IndexMutRange(a, b) == Hand("range_mut", a, b, index_mut_range(a, b), TRUE)
IndexRangeTo(e) == Hand("range_to", e, 0, index_range_to(e), FALSE)
IndexMutRangeTo(e) == Hand("range_to_mut", e, 0, index_mut_range_to(e), TRUE)
IndexRangeFrom(s) == Hand("range_from", s, 0, index_range_from(s), FALSE)
IndexMutRangeFrom(s) == Hand("range_from_mut", s, 0, index_mut_range_from(s), TRUE)
IndexRangeToInclusive(e) ==
    Hand("range_to_inclusive", e, 0, index_range_to_inclusive(e), FALSE)
IndexMutRangeToInclusive(e) ==
    Hand("range_to_inclusive_mut", e, 0, index_mut_range_to_inclusive(e), TRUE)
IndexRangeFull == Hand("range_full", 0, 0, index_range_full, FALSE)
IndexMutRangeFull == Hand("range_full_mut", 0, 0, index_mut_range_full, TRUE)
Deref == Hand("deref", 0, 0, deref, FALSE)
DerefMut == Hand("deref_mut", 0, 0, deref_mut, TRUE)

\* slice[j] = v through the mutable slice last handed out
SliceWrite(j, v) ==
    /\ state = "live"
    /\ res.out = "slice"
    /\ res.mut
    /\ j < res.n
    /\ mem' = [mem EXCEPT ![Phys(res.off + j)] = v]
    /\ UNCHANGED <<Handle, res>>

Next ==
    \/ \E n \in Requests : NewInvalid(n)
    \/ \E n \in Requests : NewAllocFails(n)
    \/ \E n \in Requests : NewOk(n)
    \/ Drop
    \/ \E i \in Usize : IndexByte(i)
    \/ \E i \in Usize, v \in ByteVals : IndexMutByte(i, v)
    \/ \E a, b \in Usize : IndexRange(a, b)
    \/ \E a, b \in Usize : IndexMutRange(a, b)
    \/ \E e \in Usize : IndexRangeTo(e)
    \/ \E e \in Usize : IndexMutRangeTo(e)
    \/ \E s \in Usize : IndexRangeFrom(s)
    \/ \E s \in Usize : IndexMutRangeFrom(s)
    \/ \E e \in Usize : IndexRangeToInclusive(e)
    \/ \E e \in Usize : IndexMutRangeToInclusive(e)
    \/ IndexRangeFull
    \/ IndexMutRangeFull
    \/ Deref
    \/ DerefMut
    \/ \E j \in Usize, v \in ByteVals : SliceWrite(j, v)

Spec == Init /\ [][Next]_vars

\* ------------------------------------------------------------------ claims
RangeOps == {"range", "range_mut"}
RangeToOps == {"range_to", "range_to_mut"}
RangeToInclusiveOps == {"range_to_inclusive", "range_to_inclusive_mut"}
AddressingOps ==
    {"index", "index_mut", "range_from", "range_from_mut", "range_full",
     "range_full_mut", "deref", "deref_mut"}
        \cup RangeOps \cup RangeToOps \cup RangeToInclusiveOps

\* n is nonzero, a power of two and a multiple of the platform granularity
ValidReq(n) ==
    /\ n # 0
    /\ \E k \in 0 .. (WordBits - 1) : n = 2 ^ k
    /\ \E q \in 0 .. n : n = q * voodoo_buf_min_len

\* C1: new(n) with n zero, not a power of two or not a multiple of min_len()
\* returns an error and makes no call of the backend alloc; for every other n
\* it makes exactly one call of the backend alloc, with n.
C1_NewValidation ==
    [][\A n \in Requests :
         (state = "none" /\ res'.op = "new" /\ res'.a = n) =>
            IF ValidReq(n)
            THEN /\ Len(allocLog') = Len(allocLog) + 1
                 /\ allocLog'[Len(allocLog')].n = n
                 /\ SubSeq(allocLog', 1, Len(allocLog)) = allocLog
            ELSE /\ res'.out = "err"
                 /\ state' = "failed"
                 /\ allocLog' = allocLog]_vars

C1_Witness ==
    /\ state = "failed"
    /\ res.op = "new"
    /\ res.a = 6
    /\ res.out = "err"
    /\ allocLog = << >>

\* C2: after the write buf[i] = v with i in [0, N), the reads buf[i + N] and
\* buf[i] both return v, whatever was written before.
C2_Aliasing ==
    (state = "live" /\ res.op = "index_mut" /\ res.a < len) =>
        /\ ReadByte(res.a + len) = res.val
        /\ ReadByte(res.a) = res.val

C2_Witness ==
    /\ state = "live"
    /\ len = 4
    /\ res.op = "index_mut"
    /\ res.a = 3
    /\ res.val = 1
    /\ mem[0] = 1
    /\ mem[1] = 0
    /\ ReadByte(7) = 1

\* C3: for s in [0, N) and k <= N the slice buf[s..s+k] has length k and its
\* j-th byte is the byte buf[s + j] reads, also when s + k > N.
C3_Contiguity ==
    (/\ state = "live"
     /\ res.op \in RangeOps
     /\ res.a < len
     /\ res.a <= res.b
     /\ res.b - res.a <= len) =>
        /\ res.out = "slice"
        /\ res.n = res.b - res.a
        /\ \A j \in 0 .. (res.n - 1) : SliceByte(res.off, j) = ReadByte(res.a + j)

C3_Witness ==
    /\ state = "live"
    /\ len = 4
    /\ res.op = "range"
    /\ res.a = 3
    /\ res.b = 6
    /\ res.out = "slice"
    /\ res.n = 3
    /\ mem[3] = 1
    /\ mem[0] = 0
    /\ mem[1] = 1

\* C4: buf[a..b] with a <= b panics when b - a > N and returns N bytes when
\* b - a = N, in the immutable and the mutable variant.
C4_OutOfBounds ==
    (state = "live" /\ res.op \in RangeOps /\ res.a <= res.b) =>
        /\ (res.b - res.a > len => res.out = "panic")
        /\ (res.b - res.a = len => res.out = "slice" /\ res.n = len)

C4_Witness ==
    /\ state = "live"
    /\ res.op = "range_mut"
    /\ res.a <= res.b
    /\ res.b - res.a = len + 1
    /\ res.out = "panic"

\* C5: buf[a..b] with a > b returns a zero-length slice, does not panic and
\* leaves the contents of the buffer as they were.
C5_EmptyRange ==
    [][(state = "live" /\ res'.op \in RangeOps /\ res'.a > res'.b /\ res' # res) =>
          /\ res'.out = "empty"
          /\ res'.n = 0
          /\ mem' = mem]_vars

C5_Witness ==
    /\ state = "live"
    /\ res.op = "range_mut"
    /\ res.a = UsizeMax
    /\ res.b = 0
    /\ res.out = "empty"
    /\ mem[0] = 1

\* C6: for end >= N, buf[..end] is a slice of N bytes that starts at offset
\* (end - N) mod N; its last byte is the byte buf[end - 1] reads.
C6_RangeTo ==
    (state = "live" /\ res.op \in RangeToOps /\ res.a >= len) =>
        /\ res.out = "slice"
        /\ res.n = len
        /\ res.off = (res.a - len) % len
        /\ SliceByte(res.off, len - 1) = ReadByte(res.a - 1)

C6_Witness ==
    /\ state = "live"
    /\ len = 4
    /\ res.op = "range_to"
    /\ res.a = 5
    /\ res.off = 1
    /\ res.n = 4
    /\ mem[0] = 1
    /\ mem[1] = 0

\* C7: for end >= N - 1, end = N - 1 included, buf[..=end] does not fail and
\* is a slice of N bytes that starts at offset (end - N + 1) mod N; its last
\* byte is the byte buf[end] reads.
C7_RangeToInclusive ==
    (state = "live" /\ res.op \in RangeToInclusiveOps /\ res.a >= len - 1) =>
        /\ res.out = "slice"
        /\ res.n = len
        /\ res.off = (res.a - len + 1) % len
        /\ SliceByte(res.off, len - 1) = ReadByte(res.a)

\* C8: buf[..end] with end < N and buf[..=end] with end < N - 1 panic and
\* hand out no slice.
C8_UnderflowPanics ==
    (/\ state = "live"
     /\ \/ res.op \in RangeToOps /\ res.a < len
        \/ res.op \in RangeToInclusiveOps /\ res.a < len - 1) =>
        res.out = "panic"

\* C9: every slice handed out starts at an offset in [0, N) and has at most N
\* bytes, so it ends within the 2N bytes of the mapped window; every
\* single-byte index accesses an offset in [0, N).
C9_MappedWindow ==
    state = "live" =>
        /\ res.out = "slice" =>
              /\ res.off \in 0 .. (len - 1)
              /\ res.n <= len
              /\ res.off + res.n <= 2 * len
        /\ res.out = "empty" => res.n = 0
        /\ res.out = "byte" => res.off \in 0 .. (len - 1)

C9_Witness ==
    /\ state = "live"
    /\ len = 4
    /\ res.op = "range_from_mut"
    /\ res.a = UsizeMax
    /\ res.out = "slice"
    /\ res.off = 3
    /\ res.n = 4

C10_Inv ==
    /\ state = "live" =>
          /\ allocLog = << [n |-> len, ret |-> addr] >>
          /\ addr \in Bases
          /\ freeLog = << >>
          /\ len > 0
          /\ mask = len - 1
    /\ state = "dropped" =>
          /\ Len(allocLog) = 1
          /\ allocLog[1].ret \in Bases
          /\ freeLog = << [addr |-> allocLog[1].ret, len |-> allocLog[1].n] >>
    /\ state \in {"none", "failed"} => freeLog = << >>
    /\ res.op \in AddressingOps => state = "live"

\* C10: the backend free is called once, at drop, with the address alloc
\* returned and the length passed to alloc; it is not called before the drop
\* nor for a new that failed; len and mask = len - 1 stay as new set them; no
\* addressing operation follows the free.
C10_Lifecycle ==
    /\ []C10_Inv
    /\ [][(state = "live" /\ state' # "dropped") =>
            (state' = "live" /\ UNCHANGED <<addr, len, mask, allocLog, freeLog>>)]_vars
    /\ [][(state = "dropped" \/ state = "failed") => UNCHANGED vars]_vars

C10_Witness ==
    /\ state = "dropped"
    /\ len = 4
    /\ allocLog = << [n |-> 4, ret |-> "p"] >>
    /\ freeLog = << [addr |-> "p", len |-> 4] >>
====
